---- MODULE Spec2Model ----
(***************************************************************************)
(* A model of the DisToPia API request handlers (src/distopia_api/main.py):*)
(* JWT login and the optional bearer-token dependency, the dtp_data CRUD   *)
(* endpoints over PostgreSQL, and the upload directory.                    *)
(*                                                                         *)
(* Time is counted in ticks, TicksPerSecond to the second, so that what    *)
(* the JWT library and int(time.time()) do to the sub-second part of a     *)
(* timestamp is visible.  Text that the code takes apart (file names, the  *)
(* authorization scheme) is a sequence of one-character strings; text it   *)
(* only stores or compares is a TLA+ string.                               *)
(***************************************************************************)
EXTENDS Integers, Sequences, FiniteSets, TLC

(***************************************************************************)
(* Bounds of the model.                                                    *)
(***************************************************************************)
\* resolution of the clock: ticks per second
TicksPerSecond == 2
\* logins happen during the first MaxLoginTick ticks
MaxLoginTick == 3
\* the clock stops this many ticks after the last possible expiry
ClockSlack == 4
\* the SERIAL sequence of dtp_data hands out the ids 1..MaxId
MaxId == 2
\* the SERIAL sequence of conversation hands out the ids 1..MaxConversationId
MaxConversationId == 2
\* chat requests are observed during the first MaxChatTick ticks
MaxChatTick == 2
\* the number of /growth-feedback requests received
MaxFeedbacks == 3
\* the number of data rows of a file given to the bulk upload
MaxRows == 2

(***************************************************************************)
(* Program constants.                                                      *)
(***************************************************************************)
\* main.py:108  expires_delta = timedelta(hours=1), in seconds
EXPIRES_DELTA_SECONDS == 3600
\* main.py:45   SECRET_KEY
SECRET_KEY == "your_secret_key"
\* main.py:92   UPLOAD_DIR
UPLOAD_DIR == "uploads"
\* main.py:104  fake_users_db
fake_users_db == [u \in {"johndoe"} |-> [username |-> "johndoe", password |-> "secret"]]

VARIABLES
    clock,      \* wall-clock time (UTC), in ticks
    schema,     \* TRUE once the tables dtp_data and conversation exist
    dtp_data,   \* the rows of table dtp_data: records [id, name, description]
    next_id,    \* next value of the SERIAL sequence dtp_data_id_seq
    wallet,     \* the token the client got from its last successful login, with its issue time
    fs,         \* the regular files in and above the upload directory: location -> bytes
    conversation,           \* the rows of table conversation: [id, question, answer, created_at]
    conversation_next_id,   \* next value of the SERIAL sequence conversation_id_seq
    backup,     \* the backup file db_backup.sql: [exists, rows]
    req,        \* the request handled last
    resp,       \* the response to it
    conns,      \* the database connections its handling opened: a sequence of [by, closed]
    llm_calls,  \* the number of calls of the chat model its handling made
    feedback_storage,   \* the dict the global feedback_storage names: an index of heap, 0 if unset
    heap,       \* the dict objects created for feedback_storage: a sequence of user -> text
    workers,    \* the requests being handled concurrently: worker -> [pc, ...]
    submitted,  \* the /growth-feedback requests received so far, in order: [user, feedback]
    characters  \* the rows of table characters (bulk_insert.py)

vars == <<clock, schema, dtp_data, next_id, wallet, fs, conversation, conversation_next_id,
          backup, req, resp, conns, llm_calls, feedback_storage, heap, workers, submitted,
          characters>>

\* the feedback map, the worker threads and the characters table
process_state == <<feedback_storage, heap, workers, submitted, characters>>

\* the conversation table, its sequence and the backup file
chat_state == <<conversation, conversation_next_id, backup>>

(***************************************************************************)
(* Text helpers.                                                           *)
(***************************************************************************)
\* the upper-case letters and their lower-case forms
ToLower ==
    ("A" :> "a") @@ ("B" :> "b") @@ ("C" :> "c") @@ ("D" :> "d") @@ ("E" :> "e") @@
    ("F" :> "f") @@ ("G" :> "g") @@ ("H" :> "h") @@ ("I" :> "i") @@ ("J" :> "j") @@
    ("K" :> "k") @@ ("L" :> "l") @@ ("M" :> "m") @@ ("N" :> "n") @@ ("O" :> "o") @@
    ("P" :> "p") @@ ("Q" :> "q") @@ ("R" :> "r") @@ ("S" :> "s") @@ ("T" :> "t") @@
    ("U" :> "u") @@ ("V" :> "v") @@ ("W" :> "w") @@ ("X" :> "x") @@ ("Y" :> "y") @@
    ("Z" :> "z")

\* str.lower() on one character
LowerChar(c) == IF c \in DOMAIN ToLower THEN ToLower[c] ELSE c

\* str.lower()
Lower(s) == [i \in 1..Len(s) |-> LowerChar(s[i])]

(***************************************************************************)
(* JWT (PyJWT, HS256).  A token is a record [kind, key, payload]: key is   *)
(* the secret it was signed with, payload the claims it carries.  A word   *)
(* of a header that is no JWT is [kind |-> "text", text |-> characters].   *)
(***************************************************************************)
\* datetime -> NumericDate as jwt.encode converts it: timegm(utctimetuple()),
\* whole seconds, the sub-second part dropped
NumericDate(ticks) == ticks \div TicksPerSecond

\* jwt.encode(to_encode, key, algorithm="HS256"); to_encode carries exp as a datetime
jwt_encode(to_encode, key) ==
    [kind |-> "jwt", key |-> key,
     payload |-> [to_encode EXCEPT !.exp = NumericDate(to_encode.exp)]]

\* jwt_expired with the comparison off by one: a token is still taken at exp itself
jwt_expired_late(exp, now) == exp * TicksPerSecond < now

\* the exp check of jwt.decode: ExpiredSignatureError when exp <= now, now being
\* datetime.now(tz=utc).timestamp(), a float
jwt_expired(exp, now) == exp * TicksPerSecond <= now

\* jwt.decode(token, key, algorithms=["HS256"]) at time now:
\* [raised |-> TRUE] for DecodeError / InvalidSignatureError / ExpiredSignatureError
jwt_decode(token, key, now) ==
    IF token.kind # "jwt" THEN [raised |-> TRUE]
    ELSE IF token.key # key THEN [raised |-> TRUE]
    ELSE IF "exp" \in DOMAIN token.payload /\ jwt_expired(token.payload.exp, now)
         THEN [raised |-> TRUE]
    ELSE [raised |-> FALSE, payload |-> token.payload]

\* create_access_token(data) at time now, expires_delta at its default
create_access_token(sub, now) ==
    LET expire    == now + EXPIRES_DELTA_SECONDS * TicksPerSecond
        to_encode == [sub |-> sub, exp |-> expire]
    IN  jwt_encode(to_encode, SECRET_KEY)

(***************************************************************************)
(* The Authorization header: raw is "absent" (None), "empty" ("") or       *)
(* "text"; words is what authorization.split() yields.                     *)
(***************************************************************************)
Unauthorized == [status |-> 401]

\* NotBearer without the check: any scheme passes
NotBearer_unchecked(word) == FALSE

\* scheme.lower() != "bearer"
NotBearer(word) ==
    ~(word.kind = "text" /\ Lower(word.text) = <<"b","e","a","r","e","r">>)

\* optional_verify_token as a mandatory check: a request without a header is rejected
optional_verify_token_mandatory(authorization, now) ==
    IF authorization.raw = "text"
    THEN IF Len(authorization.words) # 2
         THEN Unauthorized
         ELSE IF NotBearer(authorization.words[1])
              THEN Unauthorized
              ELSE LET decoded == jwt_decode(authorization.words[2], SECRET_KEY, now)
                   IN  IF decoded.raised THEN Unauthorized
                       ELSE IF "sub" \notin DOMAIN decoded.payload THEN Unauthorized
                       ELSE [status |-> 200, sub |-> decoded.payload.sub]
    ELSE Unauthorized

optional_verify_token(authorization, now) ==
    IF authorization.raw = "text"
    THEN IF Len(authorization.words) # 2
         THEN Unauthorized                  \* ValueError from the unpacking, caught
         ELSE LET scheme == authorization.words[1]
                  token  == authorization.words[2]
              IN  IF NotBearer(scheme)
                  THEN Unauthorized         \* HTTPException, caught and re-raised as 401
                  ELSE LET decoded == jwt_decode(token, SECRET_KEY, now)
                       IN  IF decoded.raised THEN Unauthorized
                           ELSE IF "sub" \notin DOMAIN decoded.payload THEN Unauthorized
                           ELSE [status |-> 200, sub |-> decoded.payload.sub]
    ELSE [status |-> 200, sub |-> "anonymous"]

(***************************************************************************)
(* Login.                                                                  *)
(***************************************************************************)
\* credentials_ok without the password comparison
credentials_ok_any_password(username, password) == username \in DOMAIN fake_users_db

\* main.py:132  the condition under which login issues a token
credentials_ok(username, password) ==
    /\ username \in DOMAIN fake_users_db
    /\ fake_users_db[username].password = password

login_call(r, now) ==
    IF credentials_ok(r.username, r.password)
    THEN [status |-> 200, access_token |-> create_access_token(r.username, now),
          token_type |-> "bearer"]
    ELSE Unauthorized

(***************************************************************************)
(* PostgreSQL, table dtp_data (id SERIAL PRIMARY KEY, name, description).  *)
(* An outcome is [resp, dtp_data, next_id]: the response and the table     *)
(* after the call.  A request r carries its parameters, its Authorization  *)
(* header and db_ok, whether psycopg2.connect succeeds for it.             *)
(***************************************************************************)
\* a connection get_db_connection returned to the handler or helper `by`, and whether
\* conn.close() was reached
Conn(by, closed) == [by |-> by, closed |-> closed]

\* the connections of a handler that connects once and runs one query: none when the
\* connection attempt failed (or was not reached), else one, which is closed unless the
\* query raised, the close coming after it outside any finally
OneQueryConns(by, connected, query_ok) ==
    IF connected THEN <<Conn(by, query_ok)>> ELSE <<>>

\* InsertRow without conn.commit(): the row is not stored
InsertRow_uncommitted(table, id, name, description) == table

\* INSERT INTO dtp_data (name, description) VALUES (%s, %s)
InsertRow(table, id, name, description) ==
    table \cup {[id |-> id, name |-> name, description |-> description]}

\* UpdateRow setting the name only
UpdateRow_name_only(table, id, name, description) ==
    {IF row.id = id THEN [row EXCEPT !.name = name] ELSE row : row \in table}

\* UPDATE dtp_data SET name = %s, description = %s WHERE id = %s
UpdateRow(table, id, name, description) ==
    {IF row.id = id THEN [row EXCEPT !.name = name, !.description = description] ELSE row
        : row \in table}

\* DeleteRow with the comparison widened: WHERE id <= %s
DeleteRow_upto(table, id) == {row \in table : row.id > id}

\* DELETE FROM dtp_data WHERE id = %s
DeleteRow(table, id) == {row \in table : row.id # id}

\* what precedes the query in add_data, update_data and delete_data: the dependency,
\* then get_db_connection, then the first execute (which raises when the table is missing)
Rejected(r, sch, now) ==
    LET user == optional_verify_token(r.authorization, now)
    IN  IF user.status = 401 THEN Unauthorized
        ELSE IF ~r.db_ok THEN [status |-> 500, user |-> user.sub, detail |-> "DB connection failed"]
        ELSE IF ~sch THEN [status |-> 500, user |-> user.sub, detail |-> "Internal Server Error"]
        ELSE [status |-> 200, user |-> user.sub]

add_data_call(r, table, nid, sch, now) ==
    LET pre == Rejected(r, sch, now)
    IN  IF pre.status # 200
        THEN [resp |-> pre, dtp_data |-> table, next_id |-> nid,
              conns |-> OneQueryConns("add_data", pre.status # 401 /\ r.db_ok, FALSE)]
        ELSE [conns |-> OneQueryConns("add_data", TRUE, TRUE),
              resp |-> [status |-> 200, user |-> pre.user, message |-> "added"],
              dtp_data |-> InsertRow(table, nid, r.name, r.description),
              next_id |-> nid + 1]

update_data_call(r, table, nid, sch, now) ==
    LET pre == Rejected(r, sch, now)
    IN  IF pre.status # 200
        THEN [resp |-> pre, dtp_data |-> table, next_id |-> nid,
              conns |-> OneQueryConns("update_data", pre.status # 401 /\ r.db_ok, FALSE)]
        ELSE [conns |-> OneQueryConns("update_data", TRUE, TRUE),
              resp |-> [status |-> 200, user |-> pre.user, message |-> "updated"],
              dtp_data |-> UpdateRow(table, r.data_id, r.name, r.description),
              next_id |-> nid]

delete_data_call(r, table, nid, sch, now) ==
    LET pre == Rejected(r, sch, now)
    IN  IF pre.status # 200
        THEN [resp |-> pre, dtp_data |-> table, next_id |-> nid,
              conns |-> OneQueryConns("delete_data", pre.status # 401 /\ r.db_ok, FALSE)]
        ELSE [conns |-> OneQueryConns("delete_data", TRUE, TRUE),
              resp |-> [status |-> 200, user |-> pre.user, message |-> "deleted"],
              dtp_data |-> DeleteRow(table, r.data_id),
              next_id |-> nid]

\* the three endpoints behind Depends(optional_verify_token)
DataOps == {"add_data", "update_data", "delete_data"}

data_call(r, table, nid, sch, now) ==
    CASE r.op = "add_data"    -> add_data_call(r, table, nid, sch, now)
      [] r.op = "update_data" -> update_data_call(r, table, nid, sch, now)
      [] r.op = "delete_data" -> delete_data_call(r, table, nid, sch, now)

(***************************************************************************)
(* The file system.  A directory is [root, up]: the file system root, or   *)
(* the directory up levels above UPLOAD_DIR (0 is UPLOAD_DIR itself, 1 the *)
(* working directory of the server).  A location is a directory and the    *)
(* name of an entry in it.  The only directories are UPLOAD_DIR and its    *)
(* ancestors: the handlers create none, and the names of the inputs spell  *)
(* none of the ancestors' names.  Paths are POSIX paths.                   *)
(***************************************************************************)
Digit == <<"0","1","2","3","4","5","6","7","8","9">>

RECURSIVE Digits(_)
\* str(n) for n >= 0
Digits(n) == IF n < 10 THEN <<Digit[n + 1]>> ELSE Digits(n \div 10) \o <<Digit[(n % 10) + 1]>>

RECURSIVE Str(_)
\* a sequence of characters as a string
Str(chars) == IF chars = <<>> THEN "" ELSE Head(chars) \o Str(Tail(chars))

\* the characters the pattern [^A-Za-z0-9_.-] does not match
AllowedChars ==
    DOMAIN ToLower \cup {ToLower[c] : c \in DOMAIN ToLower}
        \cup {Digit[i] : i \in 1..10} \cup {"_", ".", "-"}

\* re.sub(r'[^A-Za-z0-9_.-]', '', filename)
secure_filename(filename) == SelectSeq(filename, LAMBDA c : c \in AllowedChars)

\* the index of the last occurrence of c in p, 0 if there is none: p.rfind(c) + 1
RFind(p, c) ==
    IF \E i \in 1..Len(p) : p[i] = c
    THEN CHOOSE i \in 1..Len(p) : p[i] = c /\ \A j \in (i+1)..Len(p) : p[j] # c
    ELSE 0

\* os.path.splitext(p): <<root, ext>>; the extension starts at the last dot of the last
\* component, unless only dots precede it there
os_path_splitext(p) ==
    LET sepIndex == RFind(p, "/")
        dotIndex == RFind(p, ".")
    IN  IF dotIndex > sepIndex /\ \E k \in (sepIndex + 1)..(dotIndex - 1) : p[k] # "."
        THEN <<SubSeq(p, 1, dotIndex - 1), SubSeq(p, dotIndex, Len(p))>>
        ELSE <<p, <<>>>>

\* os.path.basename(os.path.join(UPLOAD_DIR, p)): what follows the last slash
os_path_basename(p) == SubSeq(p, RFind(p, "/") + 1, Len(p))

\* os.path.join(UPLOAD_DIR, p): an absolute p replaces UPLOAD_DIR
os_path_join(p) ==
    IF p # <<>> /\ p[1] = "/" THEN [abs |-> TRUE, tail |-> p] ELSE [abs |-> FALSE, tail |-> p]

RECURSIVE Walk(_, _)
\* the kernel's path walk over tail, from directory dir
Walk(dir, tail) ==
    LET slash == IF \E i \in 1..Len(tail) : tail[i] = "/"
                 THEN CHOOSE i \in 1..Len(tail) : tail[i] = "/" /\ \A j \in 1..(i-1) : tail[j] # "/"
                 ELSE 0
        comp  == IF slash = 0 THEN tail ELSE SubSeq(tail, 1, slash - 1)
        rest  == IF slash = 0 THEN <<>> ELSE SubSeq(tail, slash + 1, Len(tail))
        into  == IF comp = <<>> \/ comp = <<".">> THEN dir
                 ELSE IF dir.root THEN dir
                 ELSE [dir EXCEPT !.up = @ + 1]
    IN  IF comp = <<>> \/ comp = <<".">> \/ comp = <<".", ".">>
        THEN IF slash = 0 THEN [kind |-> "dir", dir |-> into]
             ELSE Walk(into, rest)
        ELSE IF slash = 0 THEN [kind |-> "entry", dir |-> dir, name |-> comp]
             ELSE [kind |-> "error"]       \* ENOENT or ENOTDIR: comp is no directory

\* the location a joined path names
Resolve(path) == Walk([root |-> path.abs, up |-> 0], path.tail)

Loc(r) == [dir |-> r.dir, name |-> r.name]

\* os.path.exists(path)
os_path_exists(path, files) ==
    LET r == Resolve(path)
    IN  \/ r.kind = "dir"
        \/ r.kind = "entry" /\ Loc(r) \in DOMAIN files

\* the file system after open(path, "wb") and copyfileobj: the file is created or
\* truncated and holds content
WriteFile(files, loc, content) ==
    [l \in DOMAIN files \cup {loc} |-> IF l = loc THEN content ELSE files[l]]

\* os.remove(path)
RemoveFile(files, loc) == [l \in DOMAIN files \ {loc} |-> files[l]]

\* the extensions analyze_file_content reads as text
TextExts ==
    { <<".","t","x","t">>, <<".","h","t","m","l">>, <<".","c","s","v">>,
      <<".","j","s","o","n">>, <<".","m","d">>, <<".","l","o","g">>, <<".","x","m","l">> }

\* the extensions it hands to the PDF, DOCX, image and video analysers
AnalysedExts ==
    { <<".","p","d","f">>, <<".","d","o","c","x">>,
      <<".","j","p","g">>, <<".","j","p","e","g">>, <<".","p","n","g">>, <<".","g","i","f">>,
      <<".","b","m","p">>, <<".","w","e","b","p">>,
      <<".","m","p","4">>, <<".","m","o","v">>, <<".","a","v","i">>, <<".","m","k","v">>,
      <<".","w","m","v">> }

\* analyze_file_content(file_path), the file holding content
analyze_file_content(tail, content) ==
    LET ext == Lower(os_path_splitext(tail)[2])
    IN  IF ext \in TextExts THEN content
        ELSE IF ext \in AnalysedExts THEN "[analysis]"
        ELSE "[unsupported] " \o Str(ext)

\* the path upload_file writes to: UPLOAD_DIR/filename, or, when that exists,
\* UPLOAD_DIR/<base>_<int(time.time())><extension>
\* upload_path without the existence check
upload_path_verbatim(filename, files, now) == os_path_join(filename)

upload_path(filename, files, now) ==
    LET file_path == os_path_join(filename)
    IN  IF os_path_exists(file_path, files)
        THEN LET base      == os_path_splitext(filename)[1]
                 extension == os_path_splitext(filename)[2]
             IN  os_path_join(base \o <<"_">> \o Digits(now \div TicksPerSecond) \o extension)
        ELSE file_path

\* except_upload removing the file it wrote
except_upload_removing(files, written) == files

\* the except clause of upload_file: it logs and raises HTTPException(500); the
\* upload directory stays as the write left it
except_upload(files, written) == written

\* POST /upload/: an outcome [resp, fs, dtp_data, next_id]
upload_file_call(r, files, table, nid, sch, now) ==
    LET file_path == upload_path(r.filename, files, now)
        target    == Resolve(file_path)
        failed(f, c) == [resp |-> [status |-> 500, detail |-> "upload failed"],
                         fs |-> f, dtp_data |-> table, next_id |-> nid, conns |-> c]
    IN  IF target.kind # "entry"
        THEN failed(files, <<>>)                     \* open() raises
        ELSE LET written == WriteFile(files, Loc(target), r.content)
                 name    == os_path_basename(file_path.tail)
                 content == analyze_file_content(file_path.tail, r.content)
             IN  IF ~r.db_ok \/ ~sch
                 THEN \* no connection, or the INSERT raises
                      failed(except_upload(files, written),
                             OneQueryConns("upload_file", r.db_ok, FALSE))
                 ELSE [conns |-> OneQueryConns("upload_file", TRUE, TRUE),
                       resp |-> [status |-> 200, filename |-> name, message |-> "uploaded"],
                       fs |-> written,
                       dtp_data |-> InsertRow(table, nid, Str(name), content),
                       next_id |-> nid + 1]

\* GET /download/{filename}
download_file_call(r, files) ==
    LET file_path == os_path_join(secure_filename(r.filename))
        target    == Resolve(file_path)
    IN  IF ~os_path_exists(file_path, files)
        THEN [status |-> 404, detail |-> "not found"]
        ELSE IF target.kind = "dir"
        THEN [status |-> 500, detail |-> "not a file"]      \* FileResponse raises
        ELSE [status |-> 200, body |-> files[Loc(target)], filename |-> r.filename]

\* DELETE /delete-file/{filename}: an outcome [resp, fs]
delete_file_call(r, files) ==
    LET file_path == os_path_join(secure_filename(r.filename))
        target    == Resolve(file_path)
    IN  IF ~os_path_exists(file_path, files)
        THEN [resp |-> [status |-> 404, detail |-> "not found"], fs |-> files]
        ELSE IF target.kind = "dir"
        THEN [resp |-> [status |-> 500, detail |-> "Internal Server Error"], fs |-> files]
        ELSE [resp |-> [status |-> 200, message |-> "deleted"],
              fs |-> RemoveFile(files, Loc(target))]

(***************************************************************************)
(* /chat: the chat model and the conversation cache.  The chat model's     *)
(* behaviour for one request is llm = [raised, content]: whether           *)
(* openai.ChatCompletion.create raises, and the content it returns if not. *)
(* Each connection attempt of a request succeeds or fails on its own.      *)
(***************************************************************************)
\* main.py:155  the text get_gpt_response returns when the call raised
GPT_ERROR_TEXT == "GPT-4 call failed."

\* get_gpt_response(query), the chat model behaving as llm
get_gpt_response(llm) == IF llm.raised THEN GPT_ERROR_TEXT ELSE llm.content

\* LatestRows matching the wrong column: WHERE answer = %s
LatestRows_by_answer(table, question) ==
    {row \in table :
        /\ row.answer = question
        /\ \A other \in table : other.answer = question => other.created_at <= row.created_at}

\* LatestRows with the order reversed: ORDER BY created_at ASC
LatestRows_oldest(table, question) ==
    {row \in table :
        /\ row.question = question
        /\ \A other \in table : other.question = question => row.created_at <= other.created_at}

\* the rows that WHERE question = %s ORDER BY created_at DESC LIMIT 1 may yield: one
\* row, any of those with the greatest created_at among the rows of that question
LatestRows(table, question) ==
    {row \in table :
        /\ row.question = question
        /\ \A other \in table : other.question = question => other.created_at <= row.created_at}

\* what get_cached_conversation returns: None, or an answer
None == [found |-> FALSE, answer |-> ""]
Some(answer) == [found |-> TRUE, answer |-> answer]

\* get_cached_conversation(question): the set of outcomes [result, conns] it can have
get_cached_conversation(question, db_ok, sch, table) ==
    IF ~db_ok
    THEN {[result |-> None, conns |-> <<>>]}
    ELSE IF ~sch
    THEN \* execute raises, except returns None, close is not reached
         {[result |-> None, conns |-> <<Conn("get_cached_conversation", FALSE)>>]}
    ELSE IF LatestRows(table, question) = {}
    THEN {[result |-> None, conns |-> <<Conn("get_cached_conversation", TRUE)>>]}
    ELSE {[result |-> Some(row.answer), conns |-> <<Conn("get_cached_conversation", TRUE)>>]
             : row \in LatestRows(table, question)}

\* SaveRow as an upsert: the rows of that question are replaced
SaveRow_replacing(table, id, question, answer, created_at) ==
    {row \in table : row.question # question}
        \cup {[id |-> id, question |-> question, answer |-> answer, created_at |-> created_at]}

\* INSERT INTO conversation (question, answer, created_at) VALUES (%s, %s, %s)
SaveRow(table, id, question, answer, created_at) ==
    table \cup {[id |-> id, question |-> question, answer |-> answer, created_at |-> created_at]}

\* save_conversation(question, answer) at time now: an outcome [conversation, next_id, conns]
save_conversation(question, answer, db_ok, sch, table, nid, now) ==
    IF ~db_ok
    THEN [conversation |-> table, next_id |-> nid, conns |-> <<>>]
    ELSE IF ~sch
    THEN \* execute raises: rollback, cursor.close, conn.close
         [conversation |-> table, next_id |-> nid,
          conns |-> <<Conn("save_conversation", TRUE)>>]
    ELSE [conversation |-> SaveRow(table, nid, question, answer, now), next_id |-> nid + 1,
          conns |-> <<Conn("save_conversation", TRUE)>>]

\* `if cached_answer:` - neither None nor the empty string
Truthy(result) == result.found /\ result.answer # ""

\* POST /chat: the set of outcomes [resp, conversation, next_id, llm_calls, conns]
chat_call(r, table, nid, sch, now) ==
    { IF Truthy(cached.result)
      THEN [resp |-> [status |-> 200, response |-> cached.result.answer],
            conversation |-> table, next_id |-> nid, llm_calls |-> 0,
            conns |-> cached.conns]
      ELSE LET answer == get_gpt_response(r.llm)
               saved  == save_conversation(r.query, answer, r.db_ok2, sch, table, nid, now)
           IN  [resp |-> [status |-> 200, response |-> answer],
                conversation |-> saved.conversation, next_id |-> saved.next_id,
                llm_calls |-> 1, conns |-> cached.conns \o saved.conns]
      : cached \in get_cached_conversation(r.query, r.db_ok1, sch, table) }

\* GET /backup-db: an outcome [resp, backup, conns]
backup_db_call(r, sch, table, file) ==
    IF ~r.db_ok
    THEN [resp |-> [status |-> 200, error |-> "DB connection failed"],
          backup |-> file, conns |-> <<>>]
    ELSE IF ~sch
    THEN \* open(backup_file, "w") truncates, copy_expert raises, close is not reached
         [resp |-> [status |-> 200, error |-> "DB backup failed"],
          backup |-> [exists |-> TRUE, rows |-> {}],
          conns |-> <<Conn("backup_db", FALSE)>>]
    ELSE [resp |-> [status |-> 200, message |-> "backed up"],
          backup |-> [exists |-> TRUE, rows |-> table],
          conns |-> <<Conn("backup_db", TRUE)>>]

(***************************************************************************)
(* /growth-feedback.  The handler is a plain def, run on a worker thread;  *)
(* a thread can be suspended between any two of its reads and writes of    *)
(* the global and of the dict.  A worker handling a request is             *)
(* [pc, op, user, feedback, ref, loaded]: ref is the dict object its       *)
(* statement loaded, loaded the value it read from it.  A finished one is  *)
(* [pc |-> "done", op, user, feedback, resp].                              *)
(***************************************************************************)
\* the dict m with m[key] = value
DictSet(m, key, value) ==
    [k \in DOMAIN m \cup {key} |-> IF k = key THEN value ELSE m[k]]

\* Accumulate without the separator
Accumulate_no_space(old, feedback) == old \o feedback

\* main.py:525  feedback_storage[user] + " " + feedback
Accumulate(old, feedback) == old \o <<" ">> \o feedback

\* the return of growth_feedback, or the KeyError of feedback_storage[user]
FeedbackDone(wk, response) ==
    [pc |-> "done", op |-> wk.op, user |-> wk.user, feedback |-> wk.feedback,
     resp |-> response]

\* the next step of a worker in growth_feedback: [worker, feedback_storage, heap] after it
growth_feedback_step(wk, global, objs) ==
    LET same(next) == [worker |-> next, feedback_storage |-> global, heap |-> objs]
        goto(label) == same([wk EXCEPT !.pc = label])
    IN  CASE wk.pc = "check_global" ->      \* if 'feedback_storage' not in globals()
               IF global = 0 THEN goto("create") ELSE goto("check_user")
          [] wk.pc = "create" ->            \* feedback_storage = {}
               [worker |-> [wk EXCEPT !.pc = "check_user"],
                feedback_storage |-> Len(objs) + 1,
                heap |-> Append(objs, <<>>)]
          [] wk.pc = "check_user" ->        \* if user in feedback_storage
               IF wk.user \in DOMAIN objs[global] THEN goto("load") ELSE goto("store_new")
          [] wk.pc = "load" ->              \* the read of feedback_storage[user] += ...
               IF wk.user \in DOMAIN objs[global]
               THEN same([wk EXCEPT !.pc = "store_add", !.ref = global,
                                    !.loaded = objs[global][wk.user]])
               ELSE same(FeedbackDone(wk, [status |-> 500]))
          [] wk.pc = "store_add" ->         \* the write of feedback_storage[user] += ...
               [worker |-> [wk EXCEPT !.pc = "respond"],
                feedback_storage |-> global,
                heap |-> [objs EXCEPT ![wk.ref] =
                             DictSet(@, wk.user, Accumulate(wk.loaded, wk.feedback))]]
          [] wk.pc = "store_new" ->         \* feedback_storage[user] = feedback
               [worker |-> [wk EXCEPT !.pc = "respond"],
                feedback_storage |-> global,
                heap |-> [objs EXCEPT ![global] = DictSet(@, wk.user, wk.feedback)]]
          [] wk.pc = "respond" ->           \* return {..., "feedback": feedback_storage[user]}
               IF wk.user \in DOMAIN objs[global]
               THEN same(FeedbackDone(wk, [status |-> 200,
                                           feedback |-> objs[global][wk.user]]))
               ELSE same(FeedbackDone(wk, [status |-> 500]))

(***************************************************************************)
(* add_data on worker threads.  Each request has its own connection; its   *)
(* INSERT takes the next id of the sequence when it executes and the row   *)
(* becomes visible to the others at commit.  The handler issues no SELECT. *)
(***************************************************************************)
\* the answer of add_data
AddDone(wk, response) ==
    [pc |-> "done", op |-> wk.op, name |-> wk.name, description |-> wk.description,
     overlap |-> wk.overlap, resp |-> response]

\* the next step of a worker in add_data: [worker, dtp_data, next_id] after it
add_data_step(wk, table, nid, sch) ==
    LET same(next) == [worker |-> next, dtp_data |-> table, next_id |-> nid]
    IN  CASE wk.pc = "connect" ->           \* conn = get_db_connection()
               IF wk.db_ok THEN same([wk EXCEPT !.pc = "execute"])
               ELSE same(AddDone(wk, [status |-> 500, detail |-> "DB connection failed"]))
          [] wk.pc = "execute" ->           \* cursor.execute("INSERT INTO dtp_data ...")
               IF sch
               THEN [worker |-> [wk EXCEPT !.pc = "commit", !.id = nid],
                     dtp_data |-> table, next_id |-> nid + 1]
               ELSE same(AddDone(wk, [status |-> 500, detail |-> "Internal Server Error"]))
          [] wk.pc = "commit" ->            \* conn.commit(); conn.close(); return
               [worker |-> AddDone(wk, [status |-> 200, message |-> "added"]),
                dtp_data |-> InsertRow(table, wk.id, wk.name, wk.description),
                next_id |-> nid]

(***************************************************************************)
(* chat on worker threads.  The lookup and the save each open their own    *)
(* connection and run one statement; the call of the chat model lies       *)
(* between them.                                                           *)
(***************************************************************************)
\* the answer of chat
ChatDone(wk, response, calls) ==
    [pc |-> "done", op |-> wk.op, query |-> wk.query, overlap |-> wk.overlap,
     llm_calls |-> calls, resp |-> response]

\* the next step of a worker in chat: the set of outcomes [worker, conversation, next_id]
chat_step(wk, table, nid, sch, now) ==
    CASE wk.pc = "lookup" ->                \* cached_answer = get_cached_conversation(...)
           { [worker |-> IF Truthy(cached.result)
                         THEN ChatDone(wk, [status |-> 200,
                                            response |-> cached.result.answer], 0)
                         ELSE [wk EXCEPT !.pc = "llm"],
              conversation |-> table, next_id |-> nid]
             : cached \in get_cached_conversation(wk.query, wk.db_ok1, sch, table) }
      [] wk.pc = "llm" ->                   \* response_text = get_gpt_response(...)
           { [worker |-> [wk EXCEPT !.pc = "save", !.answer = get_gpt_response(wk.llm)],
              conversation |-> table, next_id |-> nid] }
      [] wk.pc = "save" ->                  \* save_conversation(...); return
           LET saved == save_conversation(wk.query, wk.answer, wk.db_ok2, sch, table,
                                          nid, now)
           IN  { [worker |-> ChatDone(wk, [status |-> 200, response |-> wk.answer], 1),
                  conversation |-> saved.conversation, next_id |-> saved.next_id] }

(***************************************************************************)
(* Bulk upload (bulk_insert.py, upload_data.py).  A file is the sequence   *)
(* of its data rows, each a function from the seven column names of the    *)
(* data files to values; a stream over it is [rows, eof], eof telling that *)
(* the read position is at the end of the file.                            *)
(***************************************************************************)
\* the columns of the table characters
CharacterColumns ==
    {"id", "name", "species", "ability", "attack_power", "defense_power", "new"}

\* the keyword arguments both loaders pass to Character(...)
CharacterKwargs ==
    {"name", "species", "ability", "attack_power", "defense_power", "battle_style",
     "speech_pattern"}

\* Character(**kwargs): the declarative constructor raises TypeError for a keyword
\* that is no attribute of the class
Character(kwargs) ==
    IF DOMAIN kwargs \subseteq CharacterColumns
    THEN [raised |-> FALSE, name |-> kwargs["name"], species |-> kwargs["species"]]
    ELSE [raised |-> TRUE]

\* await file.read(): the whole file is read and the position is left at its end
file_read(stream) == [stream EXCEPT !.eof = TRUE]

\* pd.read_csv / read_json / read_excel on a stream: they parse from the present
\* position and raise when nothing is left to parse
pd_read(stream) ==
    IF stream.eof THEN [raised |-> TRUE, frame |-> <<>>]
    ELSE [raised |-> FALSE, frame |-> stream.rows]

\* str.endswith
EndsWith(s, suffix) ==
    Len(s) >= Len(suffix) /\ SubSeq(s, Len(s) - Len(suffix) + 1, Len(s)) = suffix

BulkExts == { <<".","c","s","v">>, <<".","j","s","o","n">>, <<".","x","l","s","x">> }

\* the Character objects built from the rows of a frame
Built(frame) ==
    [i \in 1..Len(frame) |-> Character([k \in CharacterKwargs |-> frame[i][k]])]

\* db.add_all(objects); db.commit(): [raised, characters]; the unique index on name
\* makes the commit fail as a whole
commit_characters(table, objects) ==
    LET names == {objects[i].name : i \in DOMAIN objects}
        clash == \/ Cardinality(names) < Len(objects)
                 \/ \E row \in table : row.name \in names
    IN  IF clash THEN [raised |-> TRUE, characters |-> table]
        ELSE [raised |-> FALSE,
              characters |-> table \cup
                  {[id |-> Cardinality(table) + i, name |-> objects[i].name,
                    species |-> objects[i].species, new |-> TRUE] : i \in DOMAIN objects}]

\* the loop over df.iterrows() and the commit: [raised, added, characters]
insert_frame(table, frame) ==
    IF \E i \in DOMAIN frame : Built(frame)[i].raised
    THEN [raised |-> TRUE, added |-> 0, characters |-> table]
    ELSE LET done == commit_characters(table, Built(frame))
         IN  [raised |-> done.raised, added |-> IF done.raised THEN 0 ELSE Len(frame),
              characters |-> done.characters]

\* POST /upload/ of bulk_insert.py: an outcome [resp, characters]
bulk_upload_call(r, table) ==
    LET stream   == file_read([rows |-> r.rows, eof |-> FALSE])
        filename == Lower(r.filename)
    IN  IF ~\E ext \in BulkExts : EndsWith(filename, ext)
        THEN [resp |-> [status |-> 200, error |-> TRUE, added |-> 0], characters |-> table]
        ELSE LET df == pd_read(stream)
                 stored == insert_frame(table, df.frame)
             IN  IF df.raised \/ stored.raised
                 THEN [resp |-> [status |-> 500, error |-> TRUE, added |-> 0],
                       characters |-> table]
                 ELSE [resp |-> [status |-> 200, error |-> FALSE, added |-> stored.added],
                       characters |-> stored.characters]

\* the script upload_data.py on a characters.csv: an outcome [resp, characters]; the
\* status is the exit status of the script
upload_data_call(r, table) ==
    LET df     == pd_read([rows |-> r.rows, eof |-> FALSE])
        stored == insert_frame(table, df.frame)
    IN  IF stored.raised
        THEN [resp |-> [status |-> 1, error |-> TRUE, added |-> 0], characters |-> table]
        ELSE [resp |-> [status |-> 0, error |-> FALSE, added |-> stored.added],
              characters |-> stored.characters]

(***************************************************************************)
(* Inputs.                                                                 *)
(***************************************************************************)
Usernames    == {"johndoe", "alice"}
Passwords    == {"secret", "wrong"}
Names        == {"Elara", "Kael"}
Descriptions == {"A scout.", "Born in the north."}
Ids          == 1..MaxId

Contents     == {"x", "y"}
\* file names: "a.b" and "a b"
PlainNames   == { <<"a", ".", "b">>, <<"a", " ", "b">> }
\* file names that are paths: "../a", ".." and "a/b"
PathNames    == { <<".", ".", "/", "a">>, <<".", ".">>, <<"a", "/", "b">> }

Text(chars) == [kind |-> "text", text |-> chars]
Jwt(key, payload) == [kind |-> "jwt", key |-> key, payload |-> payload]

NoHeader    == [raw |-> "absent", words |-> <<>>]
EmptyHeader == [raw |-> "empty", words |-> <<>>]
Header(words) == [raw |-> "text", words |-> words]

BearerWord == Text(<<"B","e","a","r","e","r">>)
GoodToken  == Jwt(SECRET_KEY, [sub |-> "johndoe", exp |-> 1])

GoodHeader == Header(<<BearerWord, GoodToken>>)

\* the tokens a client can put together without logging in
ForgedTokens ==
    { GoodToken,
      Jwt(SECRET_KEY, [sub |-> "johndoe", exp |-> 0]),   \* expired at clock 0
      Jwt(SECRET_KEY, [sub |-> "johndoe"]),              \* no exp claim
      Jwt(SECRET_KEY, [exp |-> 1]),                      \* no sub claim
      Jwt("forged", [sub |-> "johndoe", exp |-> 1]),     \* signed with another key
      Text(<<"x">>) }                                    \* not a JWT

Headers ==
    { NoHeader, EmptyHeader,
      Header(<<>>),                                      \* only white space
      Header(<<GoodToken>>),                             \* one word
      Header(<<BearerWord, GoodToken, Text(<<"x">>)>>),  \* three words
      Header(<<Text(<<"B","a","s","i","c">>), GoodToken>>),
      Header(<<Text(<<"b","e","a","r","e","r">>), GoodToken>>) }
    \cup { Header(<<BearerWord, t>>) : t \in ForgedTokens }

Queries    == {"hi", "yo"}
\* the chat model raises, returns an empty content, or returns a text
LlmReplies ==
    { [raised |-> TRUE, content |-> ""],
      [raised |-> FALSE, content |-> ""],
      [raised |-> FALSE, content |-> "Hello."] }

\* file names given to the bulk upload: a.csv, A.CSV, a.json, a.xlsx, a.txt, csv
BulkNames ==
    { <<"a", ".", "c", "s", "v">>, <<"A", ".", "C", "S", "V">>,
      <<"a", ".", "j", "s", "o", "n">>, <<"a", ".", "x", "l", "s", "x">>,
      <<"a", ".", "t", "x", "t">>, <<"c", "s", "v">> }

\* one data row of a file
DataRow(name, species) ==
    [k \in CharacterKwargs |->
        CASE k = "name" -> name
          [] k = "species" -> species
          [] k \in {"attack_power", "defense_power"} -> "1"
          [] OTHER -> "-"]

DataRows == {DataRow(n, sp) : n \in Names, sp \in {"elf", "orc"}}

\* the files of at most MaxRows data rows
DataFiles == UNION {[1..n -> DataRows] : n \in 0..MaxRows}

FeedbackUsers == {"ann", "bob"}
Feedbacks     == { <<"a">>, <<"b">> }

\* the header a client builds from a token that login returned
WalletHeaders == { Header(<<BearerWord, w.token>>) : w \in wallet }

\* the instants at which requests are observed: the seconds in which logins
\* happen, and the ticks around the expiry of the tokens issued then
ExpireTicks == EXPIRES_DELTA_SECONDS * TicksPerSecond
Instants ==
    (0..MaxLoginTick) \cup ((ExpireTicks - 1)..(MaxLoginTick + ExpireTicks + ClockSlack))

\* the worker threads of the server that handle requests at the same time
Workers == {"w1", "w2"}
\* a worker that handles no request
Idle == [pc |-> "idle"]

(***************************************************************************)
(* Initial state: the server has started, the database is empty.           *)
(***************************************************************************)
Init ==
    /\ clock = 0
    /\ schema = FALSE
    /\ dtp_data = {}
    /\ next_id = 1
    /\ wallet = {}
    /\ fs = <<>>
    /\ conversation = {}
    /\ conversation_next_id = 1
    /\ backup = [exists |-> FALSE, rows |-> {}]
    /\ req = [op |-> "start"]
    /\ resp = [status |-> 0]
    /\ conns = <<>>
    /\ llm_calls = 0
    /\ feedback_storage = 0
    /\ heap = <<>>
    /\ workers = [w \in Workers |-> Idle]
    /\ submitted = <<>>
    /\ characters = {}

(***************************************************************************)
(* Actions.                                                                *)
(***************************************************************************)
\* time passes to the next observed instant
AdvanceClock ==
    /\ \E t \in Instants : t > clock
    /\ clock' = CHOOSE t \in Instants : t > clock /\ \A u \in Instants : u > clock => t <= u
    /\ UNCHANGED <<schema, dtp_data, next_id, wallet, fs, req, resp, conns, llm_calls>>
    /\ UNCHANGED chat_state
    /\ UNCHANGED process_state

\* POST /login-for-access-token; the client keeps the token of its last login
login_for_access_token(username, password) ==
    /\ clock <= MaxLoginTick
    /\ req' = [op |-> "login", username |-> username, password |-> password]
    /\ resp' = login_call(req', clock)
    /\ wallet' = IF resp'.status = 200
                 THEN {[token |-> resp'.access_token, username |-> username,
                        issued_at |-> clock]}
                 ELSE wallet
    /\ conns' = <<>>
    /\ llm_calls' = 0
    /\ UNCHANGED <<clock, schema, dtp_data, next_id, fs>>
    /\ UNCHANGED chat_state
    /\ UNCHANGED process_state

\* GET /create-table
create_table(db_ok) ==
    /\ req' = [op |-> "create_table", db_ok |-> db_ok]
    /\ IF db_ok
       THEN schema' = TRUE /\ resp' = [status |-> 200, message |-> "created"]
       ELSE UNCHANGED schema /\ resp' = [status |-> 500, detail |-> "DB connection failed"]
    /\ conns' = OneQueryConns("create_table", db_ok, TRUE)
    /\ llm_calls' = 0
    /\ UNCHANGED <<clock, dtp_data, next_id, wallet, fs>>
    /\ UNCHANGED chat_state
    /\ UNCHANGED process_state

\* a call of one of the endpoints behind Depends(optional_verify_token)
DataRequest(r) ==
    /\ req' = r
    /\ \E out \in {data_call(r, dtp_data, next_id, schema, clock)} :
          /\ out.next_id <= MaxId + 1
          /\ resp' = out.resp
          /\ dtp_data' = out.dtp_data
          /\ next_id' = out.next_id
          /\ conns' = out.conns
    /\ llm_calls' = 0
    /\ UNCHANGED <<clock, schema, wallet, fs>>
    /\ UNCHANGED chat_state
    /\ UNCHANGED process_state

\* POST /add-data
add_data(name, description, authorization, db_ok) ==
    /\ db_ok \in BOOLEAN
    /\ DataRequest([op |-> "add_data", name |-> name, description |-> description,
                    authorization |-> authorization, db_ok |-> db_ok])

\* PUT /update-data/{data_id}
update_data(data_id, name, description, authorization, db_ok) ==
    /\ db_ok \in BOOLEAN
    /\ DataRequest([op |-> "update_data", data_id |-> data_id, name |-> name,
                    description |-> description,
                    authorization |-> authorization, db_ok |-> db_ok])

\* DELETE /delete-data/{data_id}
delete_data(data_id, authorization, db_ok) ==
    /\ db_ok \in BOOLEAN
    /\ DataRequest([op |-> "delete_data", data_id |-> data_id,
                    authorization |-> authorization, db_ok |-> db_ok])

\* GET /get-data
get_data(db_ok) ==
    /\ req' = [op |-> "get_data", db_ok |-> db_ok]
    /\ resp' = IF ~db_ok THEN [status |-> 500, detail |-> "DB connection failed"]
               ELSE IF ~schema THEN [status |-> 500, detail |-> "Internal Server Error"]
               ELSE [status |-> 200, data |-> dtp_data]
    /\ conns' = OneQueryConns("get_data", db_ok, schema)
    /\ llm_calls' = 0
    /\ UNCHANGED <<clock, schema, dtp_data, next_id, wallet, fs>>
    /\ UNCHANGED chat_state
    /\ UNCHANGED process_state

\* POST /upload/
upload_file(filename, content, db_ok) ==
    /\ req' = [op |-> "upload_file", filename |-> filename, content |-> content,
               db_ok |-> db_ok]
    /\ \E out \in {upload_file_call(req', fs, dtp_data, next_id, schema, clock)} :
          /\ out.next_id <= MaxId + 1
          /\ resp' = out.resp
          /\ fs' = out.fs
          /\ dtp_data' = out.dtp_data
          /\ next_id' = out.next_id
          /\ conns' = out.conns
    /\ llm_calls' = 0
    /\ UNCHANGED <<clock, schema, wallet>>
    /\ UNCHANGED chat_state
    /\ UNCHANGED process_state

\* GET /download/{filename}
download_file(filename) ==
    /\ req' = [op |-> "download_file", filename |-> filename]
    /\ resp' = download_file_call(req', fs)
    /\ conns' = <<>>
    /\ llm_calls' = 0
    /\ UNCHANGED <<clock, schema, dtp_data, next_id, wallet, fs>>
    /\ UNCHANGED chat_state
    /\ UNCHANGED process_state

\* DELETE /delete-file/{filename}
delete_file(filename) ==
    /\ req' = [op |-> "delete_file", filename |-> filename]
    /\ \E out \in {delete_file_call(req', fs)} :
          /\ resp' = out.resp
          /\ fs' = out.fs
    /\ conns' = <<>>
    /\ llm_calls' = 0
    /\ UNCHANGED <<clock, schema, dtp_data, next_id, wallet>>
    /\ UNCHANGED chat_state
    /\ UNCHANGED process_state

\* time passes by one tick, while chat requests are observed
Tick ==
    /\ clock < MaxChatTick
    /\ clock' = clock + 1
    /\ UNCHANGED <<schema, dtp_data, next_id, wallet, fs, req, resp, conns, llm_calls>>
    /\ UNCHANGED chat_state
    /\ UNCHANGED process_state

\* POST /chat
chat(query, llm, db_ok1, db_ok2) ==
    /\ req' = [op |-> "chat", query |-> query, llm |-> llm,
               db_ok1 |-> db_ok1, db_ok2 |-> db_ok2]
    /\ \E out \in chat_call(req', conversation, conversation_next_id, schema, clock) :
          /\ out.next_id <= MaxConversationId + 1
          /\ resp' = out.resp
          /\ conversation' = out.conversation
          /\ conversation_next_id' = out.next_id
          /\ llm_calls' = out.llm_calls
          /\ conns' = out.conns
    /\ UNCHANGED <<clock, schema, dtp_data, next_id, wallet, fs, backup>>
    /\ UNCHANGED process_state

\* GET /backup-db
backup_db(db_ok) ==
    /\ req' = [op |-> "backup_db", db_ok |-> db_ok]
    /\ \E out \in {backup_db_call(req', schema, dtp_data, backup)} :
          /\ resp' = out.resp
          /\ backup' = out.backup
          /\ conns' = out.conns
    /\ llm_calls' = 0
    /\ UNCHANGED <<clock, schema, dtp_data, next_id, wallet, fs, conversation,
                   conversation_next_id>>
    /\ UNCHANGED process_state

\* a worker that can take a new request
Free(w) == workers[w].pc \in {"idle", "done"}

\* what the worker steps leave alone
server_state ==
    <<clock, schema, dtp_data, next_id, wallet, fs, conversation, conversation_next_id,
      backup, req, resp, conns, llm_calls, characters>>

\* POST /growth-feedback is received and handed to worker w
growth_feedback(w, user, feedback) ==
    /\ Free(w)
    /\ Len(submitted) < MaxFeedbacks
    /\ workers' = [workers EXCEPT ![w] =
                      [pc |-> "check_global", op |-> "growth_feedback", user |-> user,
                       feedback |-> feedback, ref |-> 0, loaded |-> <<>>, overlap |-> FALSE]]
    /\ submitted' = Append(submitted, [by |-> w, user |-> user, feedback |-> feedback,
                                       status |-> 0])
    /\ UNCHANGED <<feedback_storage, heap>>
    /\ UNCHANGED server_state

\* worker w runs growth_feedback up to its next read or write of shared state
growth_feedback_run(w) ==
    /\ ~Free(w)
    /\ workers[w].op = "growth_feedback"
    /\ \E out \in {growth_feedback_step(workers[w], feedback_storage, heap)} :
          /\ workers' = [workers EXCEPT ![w] = out.worker]
          /\ feedback_storage' = out.feedback_storage
          /\ heap' = out.heap
          /\ submitted' = [n \in DOMAIN submitted |->
                             IF submitted[n].by = w /\ submitted[n].status = 0
                                  /\ out.worker.pc = "done"
                             THEN [submitted[n] EXCEPT !.status = out.worker.resp.status]
                             ELSE submitted[n]]
    /\ UNCHANGED server_state

\* the workers other than w that are handling a request
BusyOthers(w) == {v \in Workers \ {w} : ~Free(v)}

\* the workers, with the request of w started and the others marked as overlapping it
Started(w, request) ==
    [v \in Workers |->
        IF v = w THEN request
        ELSE IF ~Free(v) THEN [workers[v] EXCEPT !.overlap = TRUE]
        ELSE workers[v]]

\* POST /add-data without a token is received and handed to worker w
add_data_begin(w, name, description, db_ok) ==
    /\ Free(w)
    /\ optional_verify_token(NoHeader, clock).status = 200
    /\ workers' = Started(w, [pc |-> "connect", op |-> "add_data", name |-> name,
                              description |-> description, db_ok |-> db_ok, id |-> 0,
                              overlap |-> BusyOthers(w) # {}])
    /\ UNCHANGED <<clock, schema, dtp_data, next_id, wallet, fs, req, resp, conns, llm_calls>>
    /\ UNCHANGED chat_state
    /\ UNCHANGED <<feedback_storage, heap, submitted, characters>>

\* worker w runs add_data up to its next statement on the database
add_data_run(w) ==
    /\ ~Free(w)
    /\ workers[w].op = "add_data"
    /\ \E out \in {add_data_step(workers[w], dtp_data, next_id, schema)} :
          /\ out.next_id <= MaxId + 1
          /\ workers' = [workers EXCEPT ![w] = out.worker]
          /\ dtp_data' = out.dtp_data
          /\ next_id' = out.next_id
    /\ UNCHANGED <<clock, schema, wallet, fs, req, resp, conns, llm_calls>>
    /\ UNCHANGED chat_state
    /\ UNCHANGED <<feedback_storage, heap, submitted, characters>>

\* POST /chat is received and handed to worker w
chat_begin(w, query, llm, db_ok1, db_ok2) ==
    /\ Free(w)
    /\ workers' = Started(w, [pc |-> "lookup", op |-> "chat", query |-> query, llm |-> llm,
                              db_ok1 |-> db_ok1, db_ok2 |-> db_ok2, answer |-> "",
                              overlap |-> BusyOthers(w) # {}])
    /\ UNCHANGED <<clock, schema, dtp_data, next_id, wallet, fs, req, resp, conns, llm_calls>>
    /\ UNCHANGED chat_state
    /\ UNCHANGED <<feedback_storage, heap, submitted, characters>>

\* worker w runs chat up to its next statement on the database or call of the chat model
chat_run(w) ==
    /\ ~Free(w)
    /\ workers[w].op = "chat"
    /\ \E out \in chat_step(workers[w], conversation, conversation_next_id, schema, clock) :
          /\ out.next_id <= MaxConversationId + 1
          /\ workers' = [workers EXCEPT ![w] = out.worker]
          /\ conversation' = out.conversation
          /\ conversation_next_id' = out.next_id
    /\ UNCHANGED <<clock, schema, dtp_data, next_id, wallet, fs, backup, req, resp, conns,
                   llm_calls>>
    /\ UNCHANGED <<feedback_storage, heap, submitted, characters>>

\* POST /upload/ is received: the request waits for the event loop to run the handler
upload_begin(w, filename, content, db_ok) ==
    /\ Free(w)
    /\ workers' = Started(w, [pc |-> "pending", op |-> "upload_file", filename |-> filename,
                              content |-> content, db_ok |-> db_ok,
                              fresh |-> ~os_path_exists(os_path_join(filename), fs),
                              overlap |-> BusyOthers(w) # {}])
    /\ UNCHANGED <<clock, schema, dtp_data, next_id, wallet, fs, req, resp, conns, llm_calls>>
    /\ UNCHANGED chat_state
    /\ UNCHANGED <<feedback_storage, heap, submitted, characters>>

\* the event loop runs the coroutine upload_file of worker w: it contains no await, so
\* it runs from its first statement to its return before anything else is scheduled
upload_run(w) ==
    /\ ~Free(w)
    /\ workers[w].op = "upload_file"
    /\ \E out \in {upload_file_call(workers[w], fs, dtp_data, next_id, schema, clock)} :
          /\ out.next_id <= MaxId + 1
          /\ workers' = [workers EXCEPT ![w] =
                [pc |-> "done", op |-> "upload_file", filename |-> workers[w].filename,
                 content |-> workers[w].content, fresh |-> workers[w].fresh,
                 overlap |-> workers[w].overlap,
                 path |-> upload_path(workers[w].filename, fs, clock),
                 wrote |-> out.fs # fs,
                 resp |-> out.resp]]
          /\ fs' = out.fs
          /\ dtp_data' = out.dtp_data
          /\ next_id' = out.next_id
    /\ UNCHANGED <<clock, schema, wallet, req, resp, conns, llm_calls>>
    /\ UNCHANGED chat_state
    /\ UNCHANGED <<feedback_storage, heap, submitted, characters>>

\* what the bulk loaders leave alone
loader_frame ==
    <<clock, schema, dtp_data, next_id, wallet, fs, conversation, conversation_next_id,
      backup, conns, llm_calls, feedback_storage, heap, workers, submitted>>

\* POST /upload/ of bulk_insert.py
bulk_upload_file(filename, rows) ==
    /\ req' = [op |-> "bulk_upload", filename |-> filename, rows |-> rows]
    /\ \E out \in {bulk_upload_call(req', characters)} :
          /\ resp' = out.resp
          /\ characters' = out.characters
    /\ UNCHANGED loader_frame

\* python upload_data.py
upload_data(rows) ==
    /\ req' = [op |-> "upload_data", rows |-> rows]
    /\ \E out \in {upload_data_call(req', characters)} :
          /\ resp' = out.resp
          /\ characters' = out.characters
    /\ UNCHANGED loader_frame

\* the names of the files stored so far
StoredNames == {l.name : l \in DOMAIN fs}

(***************************************************************************)
(* Specifications.                                                         *)
(***************************************************************************)
\* login, the passing of time, and a protected endpoint called with the token
NextAuth ==
    \/ AdvanceClock
    \/ \E u \in Usernames, p \in Passwords : login_for_access_token(u, p)
    \/ \E ok \in BOOLEAN : create_table(ok)
    \/ \E id \in Ids, h \in WalletHeaders, ok \in BOOLEAN : delete_data(id, h, ok)

SpecAuth == Init /\ [][NextAuth]_vars

\* the dtp_data endpoints, called without a header or with a valid token
NextData ==
    \/ \E ok \in BOOLEAN : create_table(ok)
    \/ \E n \in Names, d \in Descriptions, h \in {NoHeader, GoodHeader}, ok \in BOOLEAN :
          add_data(n, d, h, ok)
    \/ \E id \in Ids, n \in Names, d \in Descriptions, h \in {NoHeader, GoodHeader},
          ok \in BOOLEAN :
          update_data(id, n, d, h, ok)
    \/ \E id \in Ids, h \in {NoHeader, GoodHeader}, ok \in BOOLEAN : delete_data(id, h, ok)
    \/ \E ok \in BOOLEAN : get_data(ok)

SpecData == Init /\ [][NextData]_vars

\* the endpoints behind the token dependency, called with every kind of header
NextGuard ==
    \/ \E ok \in BOOLEAN : create_table(ok)
    \/ \E n \in Names, h \in Headers, ok \in BOOLEAN : add_data(n, "A scout.", h, ok)
    \/ \E id \in Ids, n \in Names, h \in Headers, ok \in BOOLEAN :
          update_data(id, n, "A scout.", h, ok)
    \/ \E id \in Ids, h \in Headers, ok \in BOOLEAN : delete_data(id, h, ok)

SpecGuard == Init /\ [][NextGuard]_vars

\* the upload directory, file names taken from names
NextUploads(names) ==
    \/ \E ok \in BOOLEAN : create_table(ok)
    \/ \E f \in names, c \in Contents, ok \in BOOLEAN : upload_file(f, c, ok)
    \/ \E f \in names \cup StoredNames : download_file(f)
    \/ \E f \in names \cup StoredNames : delete_file(f)

NextFiles == NextUploads(PlainNames)

SpecFiles == Init /\ [][NextFiles]_vars

NextPaths == NextUploads(PathNames)

SpecPaths == Init /\ [][NextPaths]_vars

\* /chat and the conversation cache
NextChat ==
    \/ Tick
    \/ \E ok \in BOOLEAN : create_table(ok)
    \/ \E q \in Queries, l \in LlmReplies, ok1 \in BOOLEAN, ok2 \in BOOLEAN :
          chat(q, l, ok1, ok2)

SpecChat == Init /\ [][NextChat]_vars

\* every endpoint that uses the database, each with one choice of parameters
NextDb ==
    \/ \E ok \in BOOLEAN : create_table(ok)
    \/ \E ok1 \in BOOLEAN, ok2 \in BOOLEAN :
          chat("hi", [raised |-> FALSE, content |-> "Hello."], ok1, ok2)
    \/ \E ok \in BOOLEAN : backup_db(ok)
    \/ \E ok \in BOOLEAN : add_data("Elara", "A scout.", NoHeader, ok)
    \/ \E ok \in BOOLEAN : update_data(1, "Kael", "A scout.", NoHeader, ok)
    \/ \E ok \in BOOLEAN : delete_data(1, NoHeader, ok)
    \/ \E ok \in BOOLEAN : get_data(ok)
    \/ \E ok \in BOOLEAN : upload_file(<<"a", ".", "b">>, "x", ok)

SpecDb == Init /\ [][NextDb]_vars

\* /growth-feedback, one request at a time
NextFeedbackSeq ==
    \/ \E u \in FeedbackUsers, f \in Feedbacks : growth_feedback("w1", u, f)
    \/ growth_feedback_run("w1")

SpecFeedbackSeq == Init /\ [][NextFeedbackSeq]_vars

\* /growth-feedback, requests handled by the workers at the same time
NextFeedback ==
    \/ \E w \in Workers, u \in FeedbackUsers, f \in Feedbacks : growth_feedback(w, u, f)
    \/ \E w \in Workers : growth_feedback_run(w)

SpecFeedback == Init /\ [][NextFeedback]_vars

\* /add-data, requests handled by the workers at the same time
NextAdds ==
    \/ create_table(TRUE)
    \/ \E w \in Workers, n \in Names, d \in Descriptions, db_ok \in BOOLEAN :
          add_data_begin(w, n, d, db_ok)
    \/ \E w \in Workers : add_data_run(w)

SpecAdds == Init /\ [][NextAdds]_vars

\* /chat, requests handled by the workers at the same time
NextChats ==
    \/ create_table(TRUE)
    \/ \E w \in Workers, q \in Queries, llm \in {r \in LlmReplies : ~r.raised},
          db_ok1 \in BOOLEAN :
          chat_begin(w, q, llm, db_ok1, TRUE)
    \/ \E w \in Workers : chat_run(w)

SpecChats == Init /\ [][NextChats]_vars

\* /upload/, requests received at the same time
NextUploading ==
    \/ create_table(TRUE)
    \/ \E w \in Workers, f \in PlainNames, ok \in BOOLEAN :
          upload_begin(w, f, IF w = "w1" THEN "x" ELSE "y", ok)
    \/ \E w \in Workers : upload_run(w)

SpecUploading == Init /\ [][NextUploading]_vars

\* the bulk loaders
NextBulk ==
    \/ \E f \in BulkNames, rows \in DataFiles : bulk_upload_file(f, rows)
    \/ \E rows \in DataFiles : upload_data(rows)

SpecBulk == Init /\ [][NextBulk]_vars

(***************************************************************************)
(* Claims.                                                                 *)
(***************************************************************************)
RowsNamed(table, name) == {row \in table : row.name = name}

\* C1: add-data for a name that has exactly one row appends to that row: afterwards
\* there is still one row of that name, and its description is the old one, a space
\* and the new one.
C1_SecondAddAppends ==
    [][ ( /\ req'.op = "add_data"
          /\ resp'.status = 200
          /\ Cardinality(RowsNamed(dtp_data, req'.name)) = 1 )
        => \E old \in RowsNamed(dtp_data, req'.name) :
              RowsNamed(dtp_data', req'.name) =
                 {[old EXCEPT !.description = old.description \o " " \o req'.description]}
      ]_vars

\* C2: in every reachable state dtp_data holds at most one row per name.
C2_OneRowPerName ==
    \A r1 \in dtp_data, r2 \in dtp_data : r1.name = r2.name => r1 = r2

\* what the token dependency answers at the present time to the token of a login
VerifyNow(w) == optional_verify_token(Header(<<BearerWord, w.token>>), clock)
Accepted(w) == VerifyNow(w) = [status |-> 200, sub |-> w.username]

\* C3 as stated: a token issued at time t is accepted at every time up to t + 1 hour
\* and rejected with 401 at every time after it.
C3_ValidUntilIssuePlusHour ==
    \A w \in wallet :
        IF clock <= w.issued_at + ExpireTicks
        THEN Accepted(w)
        ELSE VerifyNow(w) = Unauthorized

\* the expiry instant the token carries: the issue time cut to whole seconds, plus 1 hour
ExpiryTick(w) == (w.issued_at \div TicksPerSecond) * TicksPerSecond + ExpireTicks

\* C3 amended: a token issued at time t is accepted (as the login username) at every
\* time strictly before its exp claim, which is t cut to whole seconds plus 3600 s,
\* and rejected with 401 from that instant on.
C3_ValidUntilExp ==
    \A w \in wallet :
        IF clock < ExpiryTick(w)
        THEN Accepted(w)
        ELSE VerifyNow(w) = Unauthorized

\* C3 witness: a token issued in the middle of a second was presented to delete-data
\* and rejected, and the time is still before issue time + 1 hour.
C3_Witness ==
    \E w \in wallet :
        /\ w.issued_at % TicksPerSecond # 0
        /\ req.op = "delete_data"
        /\ req.authorization = Header(<<BearerWord, w.token>>)
        /\ resp.status = 401
        /\ clock < w.issued_at + ExpireTicks

\* the header is 'Bearer <token>' (the scheme in any case) with a token signed with the
\* server's key, not expired, and carrying sub
WellFormedBearer(h, now) ==
    /\ Len(h.words) = 2
    /\ h.words[1].kind = "text"
    /\ Lower(h.words[1].text) = <<"b","e","a","r","e","r">>
    /\ h.words[2].kind = "jwt"
    /\ h.words[2].key = SECRET_KEY
    /\ ("exp" \in DOMAIN h.words[2].payload
            => now < h.words[2].payload.exp * TicksPerSecond)
    /\ "sub" \in DOMAIN h.words[2].payload

\* C4: a request to add-data, update-data or delete-data with a non-empty Authorization
\* header that is no well-formed bearer token is answered 401 and leaves dtp_data as it was.
C4_BadHeaderRejected ==
    [][ ( /\ req'.op \in DataOps
          /\ req'.authorization.raw = "text"
          /\ ~WellFormedBearer(req'.authorization, clock) )
        => ( /\ resp' = Unauthorized
             /\ dtp_data' = dtp_data
             /\ next_id' = next_id )
      ]_vars

\* C4 witness: add-data with a token signed with another key, the database being up
\* and the table created, was answered 401.
C4_Witness ==
    /\ schema
    /\ req.op = "add_data"
    /\ req.db_ok
    /\ req.authorization = Header(<<BearerWord, Jwt("forged", [sub |-> "johndoe", exp |-> 1])>>)
    /\ resp.status = 401

\* C5: a request to add-data, update-data or delete-data without an Authorization header
\* is not rejected by the dependency, runs as "anonymous", and has the status and the
\* effect on dtp_data that the same request with a valid token has.
C5_AnonymousServed ==
    [][ ( /\ req'.op \in DataOps
          /\ req'.authorization = NoHeader )
        => LET authd == data_call([req' EXCEPT !.authorization = GoodHeader],
                                  dtp_data, next_id, schema, clock)
           IN  /\ resp'.status # 401
               /\ resp'.user = "anonymous"
               /\ authd.resp.user = "johndoe"
               /\ resp'.status = authd.resp.status
               /\ dtp_data' = authd.dtp_data
               /\ next_id' = authd.next_id
      ]_vars

\* C5 witness: add-data without a header was answered 200 as "anonymous", and the row
\* it inserted is in the table.
C5_Witness ==
    /\ req.op = "add_data"
    /\ req.authorization = NoHeader
    /\ resp.status = 200
    /\ resp.user = "anonymous"
    /\ [id |-> next_id - 1, name |-> req.name, description |-> req.description] \in dtp_data

\* C6: login answers with a bearer token exactly when the username is a key of
\* fake_users_db and the password is the stored one; the token's sub is that username;
\* every other pair gets 401 without a token.
C6_LoginIffCredentials ==
    req.op = "login" =>
        IF req.username \in DOMAIN fake_users_db
           /\ fake_users_db[req.username].password = req.password
        THEN /\ resp.status = 200
             /\ resp.token_type = "bearer"
             /\ resp.access_token.kind = "jwt"
             /\ resp.access_token.key = SECRET_KEY
             /\ resp.access_token.payload.sub = req.username
        ELSE resp = Unauthorized

\* C6 witness: a login with johndoe's password returned a token.
C6_Witness ==
    /\ req.op = "login"
    /\ req.username = "johndoe"
    /\ resp.status = 200
    /\ \E w \in wallet : w.token = resp.access_token

\* the upload directory
UploadDir == [root |-> FALSE, up |-> 0]

\* C7: after a successful upload, downloading the file name the upload returned yields
\* the uploaded bytes.
C7_RoundTrip ==
    (req.op = "upload_file" /\ resp.status = 200)
        => LET got == download_file_call([filename |-> resp.filename], fs)
           IN  got.status = 200 /\ got.body = req.content

\* C8: a successful upload stores its file under a path that held no file before, and
\* leaves every file already stored as it was.
C8_UploadNeverOverwrites ==
    [][ (req'.op = "upload_file" /\ resp'.status = 200)
        => /\ \A l \in DOMAIN fs : l \in DOMAIN fs' /\ fs'[l] = fs[l]
           /\ DOMAIN fs' # DOMAIN fs
      ]_vars

\* C9: a successful upload reports, and inserts a row named, <base>_<timestamp><ext>
\* when the given file name exists in the upload directory, and the given name
\* unchanged when it does not.
C9_ReportedName ==
    [][ (req'.op = "upload_file" /\ resp'.status = 200)
        => LET given    == req'.filename
               parts    == os_path_splitext(given)
               expected == IF os_path_exists(os_path_join(given), fs)
                           THEN parts[1] \o <<"_">> \o Digits(clock \div TicksPerSecond)
                                    \o parts[2]
                           ELSE given
           IN  /\ resp'.filename = expected
               /\ \E row \in dtp_data' \ dtp_data : row.name = Str(expected)
      ]_vars

\* C10: every file upload has written is a direct child of the upload directory.
C10_WrittenInsideUploadDir ==
    \A l \in DOMAIN fs : l.dir = UploadDir

\* a step that handles a request: the steps in which time passes leave req as it was
Handles(op) == clock' = clock /\ req'.op = op

\* C11: a /chat request whose query is the question of a stored row (the database being
\* reachable) is answered with a stored answer of that question, without a call of the
\* chat model and without a new conversation row, whatever the stored answer is.
C11_CacheHitReturnsStored ==
    [][ ( /\ Handles("chat")
          /\ req'.db_ok1
          /\ schema
          /\ \E row \in conversation : row.question = req'.query )
        => ( /\ llm_calls' = 0
             /\ conversation' = conversation
             /\ \E row \in conversation :
                   row.question = req'.query /\ resp'.response = row.answer )
      ]_vars

\* C12: when the chat model raises during /chat, the response is a failure (5xx) and no
\* conversation row is stored for the request.
C12_LlmFailurePropagates ==
    [][ ( /\ Handles("chat")
          /\ llm_calls' > 0
          /\ req'.llm.raised )
        => ( /\ resp'.status >= 500
             /\ llm_calls' = 1
             /\ conversation' = conversation )
      ]_vars

\* the handling of the last request made a connection attempt that failed
ConnectFailed ==
    \/ req.op \in {"create_table", "get_data", "backup_db", "upload_file"} /\ ~req.db_ok
    \/ req.op \in DataOps /\ ~req.db_ok /\ resp.status # 401
    \/ req.op = "chat" /\ (~req.db_ok1 \/ (llm_calls = 1 /\ ~req.db_ok2))

\* C13: a request during which a database connection attempt failed is answered with a
\* 5xx status.
C13_ConnectFailureIs5xx ==
    ConnectFailed => resp.status >= 500

\* C14: every connection the handling of a request opened was closed by it, and no
\* handler or helper opened more than one.
C14_ConnectionsClosed ==
    /\ \A i \in DOMAIN conns : conns[i].closed
    /\ \A i \in DOMAIN conns, j \in DOMAIN conns : conns[i].by = conns[j].by => i = j

\* C15: update-data for an id, the database reachable and the table created, reports
\* success; afterwards the row of that id, if there is one, carries the given name and
\* description, every other row is as it was, and no row was added or removed (so the
\* table is unchanged when no row has the id).
C15_UpdateOverwrites ==
    [][ ( /\ Handles("update_data")
          /\ req'.db_ok
          /\ schema )
        => ( /\ resp'.status = 200
             /\ {row.id : row \in dtp_data'} = {row.id : row \in dtp_data}
             /\ \A row \in dtp_data' :
                   IF row.id = req'.data_id
                   THEN row.name = req'.name /\ row.description = req'.description
                   ELSE row \in dtp_data
             /\ Cardinality(dtp_data') = Cardinality(dtp_data)
             /\ ((\A row \in dtp_data : row.id # req'.data_id) => dtp_data' = dtp_data) )
      ]_vars

\* C15 witness: an update rewrote name and description of one row while another row
\* with other values is in the table.
C15_Witness ==
    /\ req.op = "update_data"
    /\ resp.status = 200
    /\ [id |-> req.data_id, name |-> req.name, description |-> req.description] \in dtp_data
    /\ \E row \in dtp_data :
          row.id # req.data_id /\ row.name # req.name /\ row.description # req.description

\* C16: delete-data for an id, the database reachable and the table created, reports
\* success whether or not a row has the id; afterwards exactly the rows with another id
\* are left, and the same call made again reports success and leaves that table.
C16_DeleteExactlyThatRow ==
    [][ ( /\ Handles("delete_data")
          /\ req'.db_ok
          /\ schema )
        => ( /\ resp'.status = 200
             /\ \A row \in dtp_data : row \in dtp_data' <=> row.id # req'.data_id
             /\ dtp_data' \subseteq dtp_data
             /\ LET again == delete_data_call(req', dtp_data', next_id', schema, clock)
                IN  again.resp.status = 200 /\ again.dtp_data = dtp_data' )
      ]_vars

\* C16 witness: a delete removed the row of its id and left the other row in place.
C16_Witness ==
    /\ req.op = "delete_data"
    /\ resp.status = 200
    /\ next_id > MaxId
    /\ \A row \in dtp_data : row.id # req.data_id
    /\ Cardinality(dtp_data) = MaxId - 1

\* C17: delete-file for a name removes the file of that name from the upload directory
\* and reports success when the file is there, and reports 404 and leaves the directory
\* as it was when it is not.
C17_DeleteFileByName ==
    [][ Handles("delete_file")
        => LET loc == [dir |-> UploadDir, name |-> req'.filename]
           IN  IF loc \in DOMAIN fs
               THEN resp'.status = 200 /\ fs' = RemoveFile(fs, loc)
               ELSE resp'.status = 404 /\ fs' = fs
      ]_vars

\* C18 as stated: upload, download and delete-file leave the tables dtp_data and
\* conversation and their sequences as they were.
C18_FilesLeaveTablesAlone ==
    [][ (Handles("upload_file") \/ Handles("download_file") \/ Handles("delete_file"))
        => ( /\ dtp_data' = dtp_data
             /\ next_id' = next_id
             /\ conversation' = conversation
             /\ conversation_next_id' = conversation_next_id )
      ]_vars

\* C18 amended: download and delete-file leave the tables as they were, and download
\* the directory too; upload leaves the conversation table as it was and, when it
\* succeeds, adds exactly one row to dtp_data, named as the file name it reports; a
\* failed upload adds none.
C18_OnlyUploadInsertsARow ==
    [][ /\ (Handles("download_file") \/ Handles("delete_file"))
            => ( /\ dtp_data' = dtp_data
                 /\ next_id' = next_id
                 /\ conversation' = conversation
                 /\ conversation_next_id' = conversation_next_id )
        /\ Handles("download_file") => fs' = fs
        /\ Handles("upload_file")
            => ( /\ conversation' = conversation
                 /\ conversation_next_id' = conversation_next_id
                 /\ IF resp'.status = 200
                    THEN \E row \in dtp_data' :
                            /\ row \notin dtp_data
                            /\ dtp_data' = dtp_data \cup {row}
                            /\ row.id = next_id
                            /\ row.name = Str(resp'.filename)
                            /\ next_id' = next_id + 1
                    ELSE dtp_data' = dtp_data /\ next_id' = next_id )
      ]_vars

\* C18 witness: delete-file removed an uploaded file, and the row its upload inserted is
\* still in dtp_data.
C18_Witness ==
    /\ req.op = "delete_file"
    /\ resp.status = 200
    /\ [dir |-> UploadDir, name |-> req.filename] \notin DOMAIN fs
    /\ \E row \in dtp_data : row.name = Str(req.filename)

\* C19: when the conversation table holds rows with the question of a /chat request,
\* the lookup (the database reachable) yields the answer of a row of that question that
\* no other row of the question is later than; and a response served without a call of
\* the chat model is such an answer.
C19_LookupReturnsLatest ==
    [][ ( /\ Handles("chat")
          /\ req'.db_ok1
          /\ schema
          /\ \E row \in conversation : row.question = req'.query )
        => LET newest(a) ==
                   \E row \in conversation :
                      /\ row.question = req'.query
                      /\ row.answer = a
                      /\ \A other \in conversation :
                            other.question = req'.query => other.created_at <= row.created_at
           IN  /\ \A out \in get_cached_conversation(req'.query, TRUE, schema, conversation) :
                     out.result.found /\ newest(out.result.answer)
               /\ (llm_calls' = 0 => newest(resp'.response))
      ]_vars

\* C19 witness: two rows of one question with different answers and times are stored,
\* and a /chat request for it was served from the cache with the later answer.
C19_Witness ==
    /\ req.op = "chat"
    /\ llm_calls = 0
    /\ \E old \in conversation, new \in conversation :
          /\ old.question = req.query
          /\ new.question = req.query
          /\ old.created_at < new.created_at
          /\ old.answer # new.answer
          /\ resp.response = new.answer

\* C20: every step leaves each row of the conversation table in the table, unmodified.
C20_ConversationAppendOnly ==
    [][conversation \subseteq conversation']_vars

\* C20 witness: the conversation table holds two rows, and create-table and add-data
\* have run after them.
C20_Witness ==
    /\ Cardinality(conversation) = 2
    /\ req.op = "create_table"
    /\ resp.status = 200
    /\ dtp_data # {}


(***************************************************************************)
(* /growth-feedback.                                                       *)
(***************************************************************************)
\* the dict object the global names holds an entry for user u
HasEntry(u) == feedback_storage # 0 /\ u \in DOMAIN heap[feedback_storage]

\* the requests submitted for user u, in submission order
SubmittedFor(u) == SelectSeq(submitted, LAMBDA s : s.user = u)

RECURSIVE JoinFeedback(_)
\* the feedbacks of the requests, joined by single spaces
JoinFeedback(requests) ==
    IF Len(requests) = 1 THEN requests[1].feedback
    ELSE JoinFeedback(SubSeq(requests, 1, Len(requests) - 1))
             \o <<" ">> \o requests[Len(requests)].feedback

\* C21: with /growth-feedback calls made one after the other, the entry of
\* every user that no call is working on is the feedbacks submitted for that
\* user joined by single spaces in submission order (a user has an entry
\* exactly when something was submitted for it), and the response of a
\* finished call returns that value for its user.
C21_SequentialFeedbackAccumulates ==
    /\ \A u \in FeedbackUsers :
          (Free("w1") \/ workers["w1"].user # u) =>
             /\ HasEntry(u) <=> SubmittedFor(u) # <<>>
             /\ HasEntry(u) => heap[feedback_storage][u] = JoinFeedback(SubmittedFor(u))
    /\ workers["w1"].pc = "done" =>
          /\ workers["w1"].resp.status = 200
          /\ workers["w1"].resp.feedback = JoinFeedback(SubmittedFor(workers["w1"].user))

C21_Witness ==
    /\ workers["w1"].pc = "done"
    /\ workers["w1"].user = "ann"
    /\ workers["w1"].resp = [status |-> 200, feedback |-> <<"a", " ", "b">>]
    /\ HasEntry("bob")
    /\ Len(submitted) = 3


\* the number of times the feedback occurs in the text
Occurrences(text, feedback) ==
    Cardinality({i \in 1..(Len(text) - Len(feedback) + 1) :
                    SubSeq(text, i, i + Len(feedback) - 1) = feedback})

\* the number of requests answered 200 that submitted the feedback for user u
AcceptedFeedbacks(u, feedback) ==
    Cardinality({n \in DOMAIN submitted :
                    /\ submitted[n].user = u
                    /\ submitted[n].feedback = feedback
                    /\ submitted[n].status = 200})

\* C23: with /growth-feedback requests handled by worker threads at the same
\* time, once every request has been answered the stored string of each user
\* contains every feedback that a request answered 200 submitted for that
\* user, as many times as it was submitted.
C23_NoAcceptedFeedbackLost ==
    (\A n \in DOMAIN submitted : submitted[n].status # 0) =>
        \A u \in FeedbackUsers, f \in Feedbacks :
            AcceptedFeedbacks(u, f) > 0 =>
                /\ HasEntry(u)
                /\ Occurrences(heap[feedback_storage][u], f) >= AcceptedFeedbacks(u, f)


(***************************************************************************)
(* Concurrent add-data.                                                    *)
(***************************************************************************)
\* both workers answered 200 to add-data requests for the same name that
\* overlapped in time
TwoConcurrentAdds ==
    /\ \A w \in Workers :
          /\ workers[w].pc = "done"
          /\ workers[w].op = "add_data"
          /\ workers[w].overlap
          /\ workers[w].resp.status = 200
    /\ workers["w1"].name = workers["w2"].name

\* C22: two concurrent add-data requests for one name each read the row of
\* that name and write their result to it, so that after both the name is
\* stored in one row, whose description is the result of the later write and
\* can lack the description the other request submitted.
C22_ConcurrentAddsWriteOneRow ==
    TwoConcurrentAdds =>
        Cardinality(RowsNamed(dtp_data, workers["w1"].name)) = 1

\* after two concurrent add-data requests for one name, each of the two
\* submitted descriptions is stored in a row of that name
C22_NoDescriptionLost ==
    TwoConcurrentAdds =>
        \A w \in Workers :
            \E row \in RowsNamed(dtp_data, workers[w].name) :
                row.description = workers[w].description


(***************************************************************************)
(* Concurrent chat.                                                        *)
(***************************************************************************)
\* the conversation rows of a question
RowsAbout(table, question) == {row \in table : row.question = question}

\* worker w takes the step that runs save_conversation
Saves(w) == workers[w].pc = "save" /\ workers[w].op = "chat" /\ workers'[w].pc = "done"

\* C24: a chat request that ran with no other request in flight, found the
\* database reachable at its lookup and only non-empty answers stored for its
\* question adds no second row for that question: a row is inserted for a
\* question that already has one only by a request that overlapped another.
\* So requests run one at a time leave at most one row per question, while
\* two overlapping requests can both miss the cache, both call the chat model
\* and both insert (the witness).
C24_SecondRowOnlyWhenOverlapping ==
    [][ \A w \in Workers :
          ( /\ Saves(w)
            /\ conversation' # conversation
            /\ workers[w].db_ok1
            /\ RowsAbout(conversation, workers[w].query) # {}
            /\ \A row \in RowsAbout(conversation, workers[w].query) : row.answer # "" )
          => workers[w].overlap
      ]_vars

C24_Witness ==
    /\ \A w \in Workers :
          /\ workers[w].pc = "done"
          /\ workers[w].op = "chat"
          /\ workers[w].query = "hi"
          /\ workers[w].overlap
          /\ workers[w].llm_calls = 1
          /\ workers[w].resp = [status |-> 200, response |-> "Hello."]
    /\ Cardinality(RowsAbout(conversation, "hi")) = 2
    /\ \A row \in RowsAbout(conversation, "hi") : row.answer = "Hello."

\* a request that ran alone was answered from the row an earlier one stored
C24_SequentialHit ==
    /\ workers["w1"].pc = "done"
    /\ workers["w1"].op = "chat"
    /\ ~workers["w1"].overlap
    /\ workers["w1"].llm_calls = 0
    /\ workers["w1"].resp = [status |-> 200, response |-> "Hello."]
    /\ Cardinality(RowsAbout(conversation, workers["w1"].query)) = 1


(***************************************************************************)
(* Concurrent uploads.                                                     *)
(***************************************************************************)
\* both workers finished uploads of one name that were in flight together,
\* received when no file of that name was stored, and each wrote its file
TwoConcurrentUploads ==
    /\ \A w \in Workers :
          /\ workers[w].pc = "done"
          /\ workers[w].op = "upload_file"
          /\ workers[w].overlap
          /\ workers[w].fresh
          /\ workers[w].wrote
    /\ workers["w1"].filename = workers["w2"].filename

\* C25: two concurrent uploads of a name not yet stored are stored under two
\* distinct paths, each holding the bytes of its upload: the existence check
\* and the write of one upload are not interleaved with those of the other.
C25_ConcurrentUploadsDistinctPaths ==
    TwoConcurrentUploads =>
        /\ workers["w1"].path # workers["w2"].path
        /\ \A w \in Workers :
              LET target == Resolve(workers[w].path)
              IN  /\ target.kind = "entry"
                  /\ Loc(target) \in DOMAIN fs
                  /\ fs[Loc(target)] = workers[w].content

C25_Witness ==
    /\ TwoConcurrentUploads
    /\ workers["w1"].content # workers["w2"].content
    /\ workers["w1"].resp.status = 200
    /\ workers["w2"].resp.status = 200


(***************************************************************************)
(* Upload that fails after its write.                                      *)
(***************************************************************************)
\* the name <base>_<timestamp><ext> of a file name at time now
Suffixed(filename, now) ==
    LET parts == os_path_splitext(filename)
    IN  parts[1] \o <<"_">> \o Digits(now \div TicksPerSecond) \o parts[2]

\* C26: an upload whose file could be written and whose database connection
\* or INSERT then failed is answered 500 and adds no dtp_data row, and the
\* file it wrote stays in the upload directory with the uploaded bytes; the
\* same upload made again with the database working is answered 200 under
\* the timestamp-suffixed name.
C26_FailedUploadLeavesFile ==
    [][ ( /\ Handles("upload_file")
          /\ ~req'.db_ok \/ ~schema
          /\ Resolve(upload_path(req'.filename, fs, clock)).kind = "entry" )
        => LET target == Loc(Resolve(upload_path(req'.filename, fs, clock)))
               retry  == upload_file_call([req' EXCEPT !.db_ok = TRUE], fs', dtp_data',
                                          next_id', TRUE, clock')
           IN  /\ resp'.status = 500
               /\ dtp_data' = dtp_data
               /\ next_id' = next_id
               /\ target \in DOMAIN fs'
               /\ fs'[target] = req'.content
               /\ \A l \in DOMAIN fs : l # target => l \in DOMAIN fs' /\ fs'[l] = fs[l]
               /\ retry.resp.status = 200
               /\ retry.resp.filename = os_path_basename(Suffixed(req'.filename, clock'))
      ]_vars

C26_Witness ==
    /\ req.op = "upload_file"
    /\ req.filename = <<"a", ".", "b">>
    /\ ~req.db_ok
    /\ schema
    /\ resp.status = 500
    /\ dtp_data = {}
    /\ [dir |-> UploadDir, name |-> <<"a", ".", "b">>] \in DOMAIN fs
    /\ [dir |-> UploadDir, name |-> <<"a", ".", "b", "_", "0">>] \notin DOMAIN fs


(***************************************************************************)
(* What download and delete-file act on.                                   *)
(***************************************************************************)
\* C27: every download and delete-file request names, after sanitizing, an
\* entry of the upload directory itself (never the directory, its parent or
\* a path outside it), and is answered 200 or 404.
C27_ActsOnChildrenOfUploadDir ==
    req.op \in {"download_file", "delete_file"} =>
        LET target == Resolve(os_path_join(secure_filename(req.filename)))
        IN  /\ target.kind = "entry"
            /\ target.dir = UploadDir
            /\ resp.status \in {200, 404}


(***************************************************************************)
(* Bulk upload.                                                            *)
(***************************************************************************)
\* the names of the rows of a file are distinct and none is in the table
NewNames(rows, table) ==
    /\ \A i, j \in DOMAIN rows : rows[i]["name"] = rows[j]["name"] => i = j
    /\ \A i \in DOMAIN rows : \A row \in table : row.name # rows[i]["name"]

\* C28: the bulk upload of a .csv, .json or .xlsx file of N rows (with names
\* that are new) is answered 200 reporting N added and adds N rows to
\* characters; every keyword it passes to Character is a column of the
\* model; a file of another extension gets an error and adds no row.
C28_BulkUploadStoresRows ==
    [][ Handles("bulk_upload") =>
          IF \E ext \in BulkExts : EndsWith(Lower(req'.filename), ext)
          THEN /\ CharacterKwargs \subseteq CharacterColumns
               /\ NewNames(req'.rows, characters) =>
                     /\ resp'.status = 200
                     /\ ~resp'.error
                     /\ resp'.added = Len(req'.rows)
                     /\ Cardinality(characters') = Cardinality(characters) + Len(req'.rows)
          ELSE resp'.error /\ characters' = characters
      ]_vars

\* an unsupported extension gets the error body and adds no row
C28_UnsupportedExtensionRejected ==
    [][ ( /\ Handles("bulk_upload")
          /\ ~\E ext \in BulkExts : EndsWith(Lower(req'.filename), ext) )
        => resp' = [status |-> 200, error |-> TRUE, added |-> 0] /\ characters' = characters
      ]_vars

\* no bulk upload of a supported file and no run of the script with a row stores anything
C28_NothingStored == characters = {}

=============================================================================
